---------------------------- MODULE Spec2Model ----------------------------
(***************************************************************************)
(* A model of cryptoxide's Ed25519 protocol layer (src/src/ed25519.rs) and *)
(* of its keyed hashing (src/src/blake2b.rs, src/src/hmac.rs,              *)
(* src/src/pbkdf2.rs) as state machines.  Spec is a caller of ed25519.rs   *)
(* that derives a key pair, signs, presents a (message, public key,        *)
(* signature) triple to verify, exchanges a shared secret with a peer, or  *)
(* calls an operation with a buffer of some length.  HashSpec is a caller  *)
(* that creates, feeds, reads and resets a Blake2b context or an Hmac,     *)
(* derives a key with pbkdf2, or clamps a hash output in the two ways of   *)
(* ed25519.rs.                                                             *)
(*                                                                         *)
(* Byte buffers are sequences over 0..255, index 1 of the model being      *)
(* index 0 of the source.  The operations of the four files are translated *)
(* statement by statement.  The collaborators they import (crate::blake2,  *)
(* crate::curve25519, crate::cryptoutil, crate::sha2, crate::util) are not *)
(* part of the sources at hand and are modelled from the specification:    *)
(*   - scalars are 256-bit little-endian integers, reduced modulo the real *)
(*     group order  l = 2^252 + 27742317777372353535851937790883648493;    *)
(*   - field elements are integers modulo the real prime p = 2^255 - 19;   *)
(*   - a point of the prime-order group generated by the base point G is   *)
(*     represented by its discrete logarithm s (the point s.G), so that    *)
(*     the group law is addition modulo l;                                 *)
(*   - the 512-bit digest is a deterministic, order-sensitive checksum,    *)
(*     and so is the compression of the BLAKE2b engine.                    *)
(***************************************************************************)
EXTENDS Integers, Sequences, FiniteSets, TLC

---------------------------------------------------------------------------
(* Bytes and the bit operations of u8 / i32 arithmetic.                    *)

Byte == 0..255

Bit(a, i) == (a \div (2^i)) % 2

RECURSIVE AndFrom(_, _, _)
\* the bits i..7 of a & b
AndFrom(a, b, i) ==
  IF i > 7 THEN 0 ELSE (2^i) * Bit(a, i) * Bit(b, i) + AndFrom(a, b, i + 1)

\* a & b on u8
And(a, b) == AndFrom(a, b, 0)

\* a | b on u8
Or(a, b) == a + b - And(a, b)

\* a ^ b on u8
Xor(a, b) == a + b - 2 * And(a, b)

\* (v >> 8) as u8, for an i32 v: the arithmetic shift, then truncation
Shr8AsU8(v) == (v \div 256) % 256

Zeros(k) == SubSeq([i \in 1..k |-> 0], 1, k)

\* buf[lo..hi] of the source: the bytes at source indices lo .. hi-1
Slice(buf, lo, hi) == SubSeq(buf, lo + 1, hi)

---------------------------------------------------------------------------
(* Loops.  A loop of the program is a step on a tuple that holds the       *)
(* loop's variables, applied a fixed number of times; a step leaves a      *)
(* finished state as it is.                                                *)

RECURSIVE Loop(_, _, _)
\* Step applied n times to st
Loop(Step(_), st, n) ==
  IF n = 0 \/ Len(st) = 0 THEN st ELSE Loop(Step, Step(st), n - 1)

LoopChunk == 8

\* Step applied n times or more to st, in chunks of LoopChunk
Iterate(Step(_), st, n) ==
  Loop(LAMBDA s : Loop(Step, s, LoopChunk), st,
       (n + LoopChunk - 1) \div LoopChunk)

---------------------------------------------------------------------------
(* Multi-precision arithmetic on little-endian sequences of base-256       *)
(* digits.                                                                 *)

\* the digits done, then the low digit of the sum s; and the carry of s
PutDigit(done, s) == <<Append(done, s % 256), s \div 256>>

\* one digit of a * k + b * e: st = <<the digits done, the carry>>
MulAddStep(a, k, b, e, st) ==
  IF Len(st[1]) >= Len(a) THEN st
  ELSE PutDigit(st[1],
                a[Len(st[1]) + 1] * k + b[Len(st[1]) + 1] * e + st[2])

WithCarry(fin) == Append(fin[1], fin[2])

\* The digits of a * k + b * e + c for equal-length a and b and small
\* integers k, e, c: Len(a) digits, and then the carry out of the last
\* digit (which is negative when the value is).
MulAddPass(a, k, b, e, c) ==
  IF Len(a) # Len(b) THEN <<>>
  ELSE WithCarry(Iterate(LAMBDA st : MulAddStep(a, k, b, e, st),
                         <<<<>>, c>>, Len(a)))

\* a + b: Len(a) + 1 digits
BigAdd(a, b) == MulAddPass(a, 1, b, 1, 0)

\* a - b, for a >= b: Len(a) digits
BigSub(a, b) == SubSeq(MulAddPass(a, 1, b, -1, 0), 1, Len(a))

\* a < b
BigLess(a, b) == MulAddPass(a, 1, b, -1, 0)[Len(a) + 1] < 0

IsZero(a) == \A i \in 1..Len(a) : a[i] = 0

\* a \div 2
Half(a) ==
  SubSeq([i \in 1..Len(a) |->
            (a[i] \div 2) + (IF i < Len(a) THEN 128 * (a[i + 1] % 2) ELSE 0)],
         1, Len(a))

\* the digits of the difference d = t - m if d is not negative, else t
DiffOr(d, t) == IF d[Len(d)] < 0 THEN t ELSE SubSeq(d, 1, Len(d) - 1)

\* t - m if that is not negative, else t
CondSub(t, m) == DiffOr(MulAddPass(t, 1, m, -1, 0), t)

\* acc - (q - 1) * M33 for the quotient estimate q, and then M33 taken off
\* while the difference stays non-negative, twice at most
ModStepQ(acc, M33, q) ==
  Loop(LAMBDA t : CondSub(t, M33),
       SubSeq(MulAddPass(acc, 1, M33, IF q = 0 THEN 0 ELSE 1 - q, 0), 1, 33),
       2)

\* One reduction step modulo M = 2^sh + d, |d| < 2^128 (sh is 252 or 255):
\* for a 33-digit acc < 512 * M the 32-digit acc mod M.  q estimates the
\* quotient from the bits above 2^sh; acc - (q - 1) * M is then in [0, 3M).
ModStep(acc, M, sh) ==
  SubSeq(ModStepQ(acc, Append(M, 0),
                  acc[32] \div (2^(sh - 248)) + acc[33] * (2^(256 - sh))),
         1, 32)

\* st = <<acc, i>>: the byte x[i] taken in below acc, modulo M
BigModStep(x, M, sh, st) ==
  IF st[2] = 0 THEN st
  ELSE <<ModStep(<<x[st[2]]>> \o st[1], M, sh), st[2] - 1>>

\* x mod M for a little-endian x of 32 bytes or more: the top 31 bytes are
\* less than M, the bytes below them are then taken in one by one
BigMod(x, M, sh) ==
  IF Len(x) < 32 THEN x
  ELSE Iterate(LAMBDA st : BigModStep(x, M, sh, st),
               <<Append(SubSeq(x, Len(x) - 30, Len(x)), 0), Len(x) - 31>>,
               Len(x) - 31)[1]

\* st = <<acc, i>>: acc * 256 + a * b[i], modulo M
MulModStep(a33, b, M, sh, st) ==
  IF st[2] = 0 THEN st
  ELSE <<ModStep(SubSeq(MulAddPass(<<0>> \o st[1], 1, a33, b[st[2]], 0),
                        1, 33), M, sh),
         st[2] - 1>>

\* (a * b) mod M for a < M and a 32-byte b, taking b in from its top byte
MulMod(a, b, M, sh) ==
  IF Len(a) # 32 \/ Len(b) # 32 THEN <<>>
  ELSE Iterate(LAMBDA st : MulModStep(Append(a, 0), b, M, sh, st),
               <<Zeros(32), 32>>, 32)[1]

\* (a + b) mod M for a, b < M
AddMod(a, b, M, sh) ==
  IF Len(a) # 32 \/ Len(b) # 32 THEN <<>>
  ELSE SubSeq(CondSub(BigAdd(a, b), Append(M, 0)), 1, 32)

\* the digits of the difference d = a - b, with M added if d is negative
AddBack(d, M) ==
  IF d[33] < 0 THEN SubSeq(BigAdd(SubSeq(d, 1, 32), M), 1, 32)
  ELSE SubSeq(d, 1, 32)

\* (a - b) mod M for a, b < M
SubMod(a, b, M, sh) ==
  IF Len(a) # 32 \/ Len(b) # 32 THEN <<>>
  ELSE AddBack(MulAddPass(a, 1, b, -1, 0), M)

---------------------------------------------------------------------------
(* crate::sha2::Sha512 behind the Digest interface (new, input, result):   *)
(* a fixed-length 64-byte digest of the concatenation of the inputs fed.   *)
(* The compression function is outside the sources; the model is a         *)
(* deterministic checksum that depends on every byte and on the order of   *)
(* the bytes (the two running sums of Adler-32), expanded to 64 bytes.     *)

AdlerBase == 65521

\* the sums of the segment made of the segments lft and rgt, rgt being n
\* bytes long
AdlerJoin(lft, rgt, n) ==
  <<(lft[1] + rgt[1]) % AdlerBase,
    (lft[2] + n * lft[1] + rgt[2]) % AdlerBase>>

RECURSIVE AdlerSeg(_, _, _)
\* over data[lo..hi]: the sum of the bytes, and the sum of the bytes each
\* weighted by its distance to hi plus one, modulo AdlerBase
AdlerSeg(data, lo, hi) ==
  IF lo > hi THEN <<0, 0>>
  ELSE IF lo = hi THEN <<data[lo], data[lo]>>
  ELSE AdlerJoin(AdlerSeg(data, lo, (lo + hi) \div 2),
                 AdlerSeg(data, (lo + hi) \div 2 + 1, hi),
                 hi - (lo + hi) \div 2)

\* the two running sums of Adler-32 over data
Adler(data) ==
  <<(1 + AdlerSeg(data, 1, Len(data))[1]) % AdlerBase,
    (Len(data) + AdlerSeg(data, 1, Len(data))[2]) % AdlerBase>>

\* 64 bytes out of the two sums
Expand(s1, s2) ==
  SubSeq([j \in 1..64 |->
            IF j = 1 THEN s1 % 256
            ELSE IF j = 2 THEN s1 \div 256
            ELSE IF j = 3 THEN s2 % 256
            ELSE IF j = 4 THEN s2 \div 256
            ELSE ((s1 + j) * ((s2 % 251) + j) + (s2 \div 251) * j) % 256],
         1, 64)

Sha512(data) == Expand(Adler(data)[1], Adler(data)[2])

\* crate::util::fixed_time_eq: equality of two byte buffers
fixed_time_eq(a, b) == a = b

---------------------------------------------------------------------------
(* crate::curve25519, scalar arithmetic modulo the group order.            *)

\* the group order l, little-endian
GroupOrder ==
  <<237, 211, 245, 92, 26, 99, 18, 88, 214, 156, 247, 162, 222, 249, 222, 20,
    0, 0, 0, 0, 0, 0, 0, 0, 0, 0, 0, 0, 0, 0, 0, 16>>

\* l = 2^GroupOrderBits + d
GroupOrderBits == 252

ScMod(x) == BigMod(x, GroupOrder, GroupOrderBits)

\* sc_reduce(s): the 64-byte little-endian s reduced modulo l into s[0..32];
\* the upper half of the buffer is left as it was
sc_reduce(s) == ScMod(s) \o Slice(s, 32, 64)

\* sc_muladd(out, a, b, c): out = (a * b + c) mod l
sc_muladd(a, b, c) ==
  IF Len(a) # 32 \/ Len(b) # 32 \/ Len(c) # 32 THEN <<>>
  ELSE AddMod(MulMod(ScMod(a), b, GroupOrder, GroupOrderBits), ScMod(c),
              GroupOrder, GroupOrderBits)

\* -s mod l, for s < l
ScNeg(s) == IF IsZero(s) THEN s ELSE BigSub(GroupOrder, s)

---------------------------------------------------------------------------
(* crate::curve25519, field arithmetic modulo p = 2^255 - 19.  An Fe is    *)
(* held fully reduced, as its 32-byte little-endian encoding.              *)

FieldPrime ==
  <<237, 255, 255, 255, 255, 255, 255, 255, 255, 255, 255, 255, 255, 255,
    255, 255, 255, 255, 255, 255, 255, 255, 255, 255, 255, 255, 255, 255,
    255, 255, 255, 127>>

\* p = 2^FieldBits - 19
FieldBits == 255

\* s with bit 255 cleared / set
ClearTop(s) == [s EXCEPT ![32] = s[32] % 128]

SetTop(s) == [s EXCEPT ![32] = (s[32] % 128) + 128]

TopBit(s) == s[32] \div 128

\* Fe::from_bytes: the little-endian value of s[0..32], top bit ignored
Fe_from_bytes(s) ==
  ModStep(Append(ClearTop(SubSeq(s, 1, 32)), 0), FieldPrime, FieldBits)

\* Fe::to_bytes: the fully reduced 32-byte little-endian encoding
Fe_to_bytes(f) == f

Fe_add(f, g) == AddMod(f, g, FieldPrime, FieldBits)

Fe_sub(f, g) == SubMod(f, g, FieldPrime, FieldBits)

Fe_mul(f, g) == MulMod(f, g, FieldPrime, FieldBits)

\* (x / 2) mod p
HalfModP(x) ==
  SubSeq(Half(IF x[1] % 2 = 0 THEN Append(x, 0) ELSE BigAdd(x, FieldPrime)),
         1, 32)

FeOneBytes == <<1>> \o Zeros(31)

(* Inversion by the binary extended Euclidean algorithm on                 *)
(* st = <<u, v, x1, x2>>, which keeps  x1 * a = u  and  x2 * a = v (mod p):*)
(* an even u or v is halved, and of an odd u and v the smaller is taken    *)
(* off the larger.                                                         *)

\* st with the two sides exchanged, unless straight
Orient(st, straight) ==
  IF straight THEN st ELSE <<st[2], st[1], st[4], st[3]>>

\* one step on the first side: u is even, or u and v are odd and u >= v
InvSide(st) ==
  IF st[1][1] % 2 = 0 THEN <<Half(st[1]), st[2], HalfModP(st[3]), st[4]>>
  ELSE <<BigSub(st[1], st[2]), st[2], Fe_sub(st[3], st[4]), st[4]>>

\* whether the step is on u: u is even, or v is odd and not above u
InvOnFirst(u, v) == u[1] % 2 = 0 \/ (v[1] % 2 = 1 /\ ~BigLess(u, v))

InvTurn(st, straight) == Orient(InvSide(Orient(st, straight)), straight)

InvStep(st) ==
  IF st[1] = FeOneBytes \/ st[2] = FeOneBytes THEN st
  ELSE InvTurn(st, InvOnFirst(st[1], st[2]))

\* the steps that take any u < p and v = p to u = 1 or v = 1
InvSteps == 1024

InvResult(st) == IF st[1] = FeOneBytes THEN st[3] ELSE st[4]

\* Fe::invert: f^(p-2), the inverse of f, and 0 for f = 0
Fe_invert(f) ==
  IF IsZero(f) THEN f
  ELSE InvResult(Loop(LAMBDA t : Iterate(InvStep, t, 64),
                      <<f, FieldPrime, FeOneBytes, Zeros(32)>>,
                      InvSteps \div 64))

---------------------------------------------------------------------------
(* crate::curve25519, group arithmetic.  A point of the group generated by *)
(* the base point G is held as its discrete logarithm: the 32-byte         *)
(* little-endian s < l stands for the point s.G, and the identity is 0.    *)
(* A point P and its negative -P share the Edwards coordinate y and the    *)
(* Montgomery coordinate u and differ in the sign of x.  The model's y of  *)
(* the pair {s.G, -s.G} is 2 * min(s, l - s): an injective labelling with  *)
(* the identity at y = 0; u is (1 + y) / (1 - y), the birational map.      *)

\* 2 * c, for c < 2^255
Twice(c) == SubSeq(BigAdd(c, c), 1, 32)

\* y with the sign of x in bit 255
PackY(y, neg) == IF neg THEN SetTop(y) ELSE y

\* the encoding of s.G, n being -s mod l and neg whether n < s: s.G is the
\* member of {s.G, -s.G} whose x is negative when s is the larger of the two
GeEncode(s, n, neg) == PackY(Twice(IF neg THEN n ELSE s), neg)

\* ge_scalarmult_base(a): a.G for a 32-byte scalar a
ge_scalarmult_base(a) == ScMod(SubSeq(a, 1, 32))

\* GeP3::to_bytes, GeP2::to_bytes: y, with the sign of x in bit 255
Ge_to_bytes(pt) == GeEncode(pt, ScNeg(pt), BigLess(ScNeg(pt), pt))

\* whether the field element y is the coordinate of a point of the group
IsGroupY(y) == y[1] % 2 = 0 /\ BigLess(y, GroupOrder)

\* the point with coordinate y whose x is negative exactly if neg, negated
DecodeNegated(y, neg) ==
  IF IsGroupY(y)
  THEN [some |-> TRUE, g |-> IF neg THEN Half(y) ELSE ScNeg(Half(y))]
  ELSE [some |-> FALSE, g |-> <<>>]

\* GeP3::from_bytes_negate_vartime(s): None when s is not the encoding of a
\* point, else Some(-P) for the point P that s encodes
GeP3_from_bytes_negate_vartime(s) ==
  DecodeNegated(ClearTop(SubSeq(s, 1, 32)), TopBit(s) = 1)

\* GeP2::double_scalarmult_vartime(a, A, b): a.A + b.G, for 32-byte scalars
GeP2_double_scalarmult_vartime(a, A, b) == sc_muladd(A, SubSeq(a, 1, 32), b)

\* (1 + y) / (1 - y)
MontOfY(y) ==
  Fe_mul(Fe_add(FeOneBytes, y), Fe_invert(Fe_sub(FeOneBytes, y)))

\* (u - 1) / (u + 1)
YOfMont(u) ==
  Fe_mul(Fe_sub(u, FeOneBytes), Fe_invert(Fe_add(u, FeOneBytes)))

\* The Montgomery u of the pair {s.G, -s.G}
MontU(s) ==
  MontOfY(Twice(IF BigLess(ScNeg(s), s) THEN ScNeg(s) ELSE s))

\* the scalar of X25519: the first 32 bytes of n, clamped
DecodeScalar25519(n) ==
  [SubSeq(n, 1, 32) EXCEPT ![1]  = (@ \div 8) * 8,
                           ![32] = (@ % 64) + 64]

\* n.P for the pair of points P with Edwards coordinate y.  A y that is the
\* coordinate of no point of the group is outside this model: the result
\* is then all zero.
ScalarMultY(n, y) ==
  IF IsGroupY(y)
  THEN MontU(MulMod(Half(y), DecodeScalar25519(n),
                    GroupOrder, GroupOrderBits))
  ELSE Zeros(32)

\* curve25519(n, p): the u-coordinate of n.P for the point P with
\* u-coordinate p (X25519)
curve25519(n, p) == Fe_to_bytes(ScalarMultY(n, YOfMont(Fe_from_bytes(p))))

\* curve25519_base(x): the u-coordinate of x.G
curve25519_base(x) ==
  Fe_to_bytes(MontU(ScMod(DecodeScalar25519(x))))

---------------------------------------------------------------------------
(* src/src/ed25519.rs                                                      *)

SEED_LENGTH == 32

PRIVATE_KEY_LENGTH == 64

PUBLIC_KEY_LENGTH == 32

SIGNATURE_LENGTH == 64

\* static L: [u8; 32]
L ==
  <<16, 0, 0, 0, 0, 0, 0, 0, 0, 0, 0, 0, 0, 0, 0, 0,
    20, 222, 249, 222, 162, 247, 156, 214, 88, 18, 99, 26, 92, 245, 211, 237>>

\* What a call gives back: a value, or a panic (a failed assert!, or a
\* slice whose range is outside the buffer).
Ret(v) == [panic |-> FALSE, val |-> v]

Panic == [panic |-> TRUE, val |-> <<>>]

\* The library keeps no state of its own: every function below reads its
\* arguments only.  What a caller holds between calls is declared with the
\* caller, further down, but for the one variable that a function of the
\* library is tried against.
VARIABLE
  esig         \* signature_extended(message, ext), the last one made

\* the clamp of keypair and of signature:
\* hash_output[0] &= 248; hash_output[31] &= 63; hash_output[31] |= 64
KeypairClamp(hash_output) ==
  [hash_output EXCEPT ![1]  = And(@, 248),
                      ![32] = Or(And(@, 63), 64)]

\* the clamp of exchange without its last statement
ExchangeClamp_bit6_as_hashed(hash) ==
  [hash EXCEPT ![1]  = And(@, 248),
               ![32] = And(@, 127)]

\* the clamp of exchange: hash[0] &= 248; hash[31] &= 127; hash[31] |= 64
ExchangeClamp(hash) ==
  [hash EXCEPT ![1]  = And(@, 248),
               ![32] = Or(And(@, 127), 64)]

\* keypair with the clamp of the scalar left out
keypair_unclamped(seed) ==
  IF Len(seed) # SEED_LENGTH THEN Panic
  ELSE
    LET a          == ge_scalarmult_base(Slice(Sha512(seed), 0, 32))
        public_key == Ge_to_bytes(a)
    IN  Ret(<<seed \o public_key, public_key>>)

\* keypair with the clamped scalar, not the seed, left in secret[0..32]
keypair_scalar_secret(seed) ==
  IF Len(seed) # SEED_LENGTH THEN Panic
  ELSE
    LET hash_output == KeypairClamp(Sha512(seed))
        a           == ge_scalarmult_base(Slice(hash_output, 0, 32))
        public_key  == Ge_to_bytes(a)
    IN  Ret(<<Slice(hash_output, 0, 32) \o public_key, public_key>>)

\* keypair(seed) -> (secret, public)
keypair(seed) ==
  IF Len(seed) # SEED_LENGTH THEN Panic
  ELSE
    LET hash_output == KeypairClamp(Sha512(seed))
        a           == ge_scalarmult_base(Slice(hash_output, 0, 32))
        public_key  == Ge_to_bytes(a)
        secret      == seed \o public_key
    IN  Ret(<<secret, public_key>>)

\* signature with the public key recomputed from the seed, the key in
\* secret_key[32..64] being ignored
signature_recomputed_public(message, secret_key) ==
  IF Len(secret_key) # PRIVATE_KEY_LENGTH THEN Panic
  ELSE
    LET seed       == Slice(secret_key, 0, 32)
        az         == KeypairClamp(Sha512(seed))
        public_key == Ge_to_bytes(ge_scalarmult_base(Slice(az, 0, 32)))
        nonce      == sc_reduce(Sha512(Slice(az, 32, 64) \o message))
        r          == ge_scalarmult_base(Slice(nonce, 0, 32))
        sig0       == Ge_to_bytes(r) \o public_key
        hram       == sc_reduce(Sha512(sig0 \o message))
        s          == sc_muladd(Slice(hram, 0, 32), Slice(az, 0, 32),
                                Slice(nonce, 0, 32))
    IN  Ret(Slice(sig0, 0, 32) \o s)

\* signature whose nonce also takes in what the caller did before: the
\* last extended signature made, as a stand-in for state kept between calls
signature_nonce_from_history(message, secret_key) ==
  IF Len(secret_key) # PRIVATE_KEY_LENGTH THEN Panic
  ELSE
    LET seed       == Slice(secret_key, 0, 32)
        public_key == Slice(secret_key, 32, 64)
        az         == KeypairClamp(Sha512(seed))
        nonce      == sc_reduce(Sha512(Slice(az, 32, 64) \o message \o esig))
        r          == ge_scalarmult_base(Slice(nonce, 0, 32))
        sig0       == Ge_to_bytes(r) \o public_key
        hram       == sc_reduce(Sha512(sig0 \o message))
        s          == sc_muladd(Slice(hram, 0, 32), Slice(az, 0, 32),
                                Slice(nonce, 0, 32))
    IN  Ret(Slice(sig0, 0, 32) \o s)

\* signature(message, secret_key) -> [u8; 64]
signature(message, secret_key) ==
  IF Len(secret_key) # PRIVATE_KEY_LENGTH THEN Panic
  ELSE
    LET seed       == Slice(secret_key, 0, 32)
        public_key == Slice(secret_key, 32, 64)
        az         == KeypairClamp(Sha512(seed))
        nonce      == sc_reduce(Sha512(Slice(az, 32, 64) \o message))
        r          == ge_scalarmult_base(Slice(nonce, 0, 32))
        sig0       == Ge_to_bytes(r) \o public_key
        hram       == sc_reduce(Sha512(sig0 \o message))
        s          == sc_muladd(Slice(hram, 0, 32), Slice(az, 0, 32),
                                Slice(nonce, 0, 32))
    IN  Ret(Slice(sig0, 0, 32) \o s)

\* to_public with the scalar read from the wrong half of the buffer
to_public_of_prefix(extended_secret) ==
  IF Len(extended_secret) < 64 THEN Panic
  ELSE
    LET a == ge_scalarmult_base(Slice(extended_secret, 32, 64))
    IN  Ret(Ge_to_bytes(a))

\* to_public(extended_secret) -> [u8; 32]
to_public(extended_secret) ==
  IF Len(extended_secret) < 32 THEN Panic
  ELSE
    LET a == ge_scalarmult_base(Slice(extended_secret, 0, 32))
    IN  Ret(Ge_to_bytes(a))

\* signature_extended(message, extended_secret) -> [u8; 64]
signature_extended(message, extended_secret) ==
  IF Len(extended_secret) # PRIVATE_KEY_LENGTH THEN Panic
  ELSE
    LET public_key == to_public(extended_secret).val
        nonce      == sc_reduce(Sha512(Slice(extended_secret, 32, 64)
                                       \o message))
        r          == ge_scalarmult_base(Slice(nonce, 0, 32))
        sig0       == Ge_to_bytes(r) \o public_key
        hram       == sc_reduce(Sha512(sig0 \o message))
        s          == sc_muladd(Slice(hram, 0, 32),
                                Slice(extended_secret, 0, 32),
                                Slice(nonce, 0, 32))
    IN  Ret(Slice(sig0, 0, 32) \o s)

\* check_s_lt_l(s) -> bool.  The loop's variables are <<i, c, n, done>>.
check_s_lt_l(s) ==
  LET body(st) ==
        IF st[4] = 1 THEN st
        ELSE LET i == st[1]
                 c == Or(st[2], And(Shr8AsU8(s[i + 1] - L[i + 1]), st[3]))
                 n == And(st[3], Shr8AsU8(Xor(s[i + 1], L[i + 1]) - 1))
             IN  IF i = 0 THEN <<i, c, n, 1>> ELSE <<i - 1, c, n, 0>>
      fin == Iterate(body, <<31, 0, 1, 0>>, 32)
  IN  fin[2] = 0

\* verify with the computed R compared with itself, not with sig[0..32]
verify_self_compare(message, public_key, sig) ==
  IF Len(public_key) # PUBLIC_KEY_LENGTH THEN Panic
  ELSE IF Len(sig) # SIGNATURE_LENGTH THEN Panic
  ELSE IF check_s_lt_l(Slice(sig, 32, 64)) THEN Ret(FALSE)
  ELSE
    LET a == GeP3_from_bytes_negate_vartime(public_key) IN
    IF ~a.some THEN Ret(FALSE)
    ELSE IF \A i \in 1..Len(public_key) : public_key[i] = 0 THEN Ret(FALSE)
    ELSE
      LET hash   == sc_reduce(Sha512(Slice(sig, 0, 32) \o public_key
                                     \o message))
          r      == GeP2_double_scalarmult_vartime(hash, a.g,
                                                   Slice(sig, 32, 64))
          rcheck == Ge_to_bytes(r)
      IN  Ret(fixed_time_eq(rcheck, rcheck))

\* verify without the rejection of the all-zero public key
verify_without_zero_check(message, public_key, sig) ==
  IF Len(public_key) # PUBLIC_KEY_LENGTH THEN Panic
  ELSE IF Len(sig) # SIGNATURE_LENGTH THEN Panic
  ELSE IF check_s_lt_l(Slice(sig, 32, 64)) THEN Ret(FALSE)
  ELSE
    LET a == GeP3_from_bytes_negate_vartime(public_key) IN
    IF ~a.some THEN Ret(FALSE)
    ELSE
      LET hash   == sc_reduce(Sha512(Slice(sig, 0, 32) \o public_key
                                     \o message))
          r      == GeP2_double_scalarmult_vartime(hash, a.g,
                                                   Slice(sig, 32, 64))
          rcheck == Ge_to_bytes(r)
      IN  Ret(fixed_time_eq(rcheck, Slice(sig, 0, 32)))

\* verify(message, public_key, signature) -> bool
verify(message, public_key, sig) ==
  IF Len(public_key) # PUBLIC_KEY_LENGTH THEN Panic
  ELSE IF Len(sig) # SIGNATURE_LENGTH THEN Panic
  ELSE IF check_s_lt_l(Slice(sig, 32, 64)) THEN Ret(FALSE)
  ELSE
    LET a == GeP3_from_bytes_negate_vartime(public_key) IN
    IF ~a.some THEN Ret(FALSE)
    ELSE IF \A i \in 1..Len(public_key) : public_key[i] = 0 THEN Ret(FALSE)
    ELSE
      LET hash   == sc_reduce(Sha512(Slice(sig, 0, 32) \o public_key
                                     \o message))
          r      == GeP2_double_scalarmult_vartime(hash, a.g,
                                                   Slice(sig, 32, 64))
          rcheck == Ge_to_bytes(r)
      IN  Ret(fixed_time_eq(rcheck, Slice(sig, 0, 32)))

\* edwards_to_montgomery_x with the numerator and the denominator exchanged
edwards_to_montgomery_x_inverted(ed_y) ==
  LET ed_z       == FeOneBytes
      temp_x     == Fe_sub(ed_z, ed_y)
      temp_z     == Fe_add(ed_z, ed_y)
      temp_z_inv == Fe_invert(temp_z)
      mont_x     == Fe_mul(temp_x, temp_z_inv)
  IN  mont_x

\* edwards_to_montgomery_x(ed_y) -> Fe
edwards_to_montgomery_x(ed_y) ==
  LET ed_z       == FeOneBytes
      temp_x     == Fe_add(ed_z, ed_y)
      temp_z     == Fe_sub(ed_z, ed_y)
      temp_z_inv == Fe_invert(temp_z)
      mont_x     == Fe_mul(temp_x, temp_z_inv)
  IN  mont_x

\* exchange with the scalar derived from private_key[32..64], the public
\* half of the key, not from the seed
exchange_hash_public_half(public_key, private_key) ==
  IF Len(public_key) < 32 \/ Len(private_key) < 64 THEN Panic
  ELSE
    LET ed_y   == Fe_from_bytes(public_key)
        mont_x == edwards_to_montgomery_x(ed_y)
        hash   == ExchangeClamp(Sha512(Slice(private_key, 32, 64)))
    IN  Ret(curve25519(hash, Fe_to_bytes(mont_x)))

\* exchange(public_key, private_key) -> [u8; 32]
exchange(public_key, private_key) ==
  IF Len(public_key) < 32 \/ Len(private_key) < 32 THEN Panic
  ELSE
    LET ed_y   == Fe_from_bytes(public_key)
        mont_x == edwards_to_montgomery_x(ed_y)
        hash   == ExchangeClamp(Sha512(Slice(private_key, 0, 32)))
    IN  Ret(curve25519(hash, Fe_to_bytes(mont_x)))

---------------------------------------------------------------------------
(* crate::blake2::EngineB, the compression engine behind blake2b.rs.  It   *)
(* is outside the sources at hand.  The model keeps its interface: the     *)
(* chaining value h (written out as 64 bytes), the byte counter t, new and *)
(* reset that start from the parameters (output length, key length), and   *)
(* a compression that mixes h, t, the block and the last-block flag with   *)
(* the checksum above in the place of the BLAKE2 rounds.                   *)

BLOCK_BYTES == 128

MAX_KEYLEN == 64

MAX_OUTLEN == 64

\* the counter as the 8 little-endian bytes the compression reads
CounterBytes(t) ==
  <<t % 256, (t \div 256) % 256, (t \div 65536) % 256,
    (t \div 16777216) % 256, 0, 0, 0, 0>>

\* Engine::new(outlen, keylen): the parameter block, no byte counted
Engine_new(outlen, keylen) ==
  [h |-> <<outlen, keylen, 1, 1>> \o Zeros(60), t |-> 0]

\* eng.reset(outlen, keylen)
Engine_reset(eng, outlen, keylen) == Engine_new(outlen, keylen)

\* eng.increment_counter(inc)
Engine_increment_counter(eng, inc) == [eng EXCEPT !.t = @ + inc]

\* eng.compress(block, last)
Engine_compress(eng, block, last) ==
  [eng EXCEPT !.h = Sha512(@ \o CounterBytes(eng.t) \o block
                             \o <<IF last THEN 255 ELSE 0>>)]

\* copy_memory(src, &mut dst[off..]) of crate::cryptoutil
CopyAt(dst, off, src) ==
  SubSeq([i \in 1..Len(dst) |->
            IF off < i /\ i <= off + Len(src) THEN src[i - off] ELSE dst[i]],
         1, Len(dst))

\* secure_memset(&mut dst[off..], 0) of crate::util
ZeroFrom(dst, off) ==
  SubSeq([i \in 1..Len(dst) |-> IF i > off THEN 0 ELSE dst[i]], 1, Len(dst))

---------------------------------------------------------------------------
(* src/src/blake2b.rs.  A context is the record of the fields of           *)
(* struct Blake2b; an operation on &mut self gives the context it leaves.  *)

\* the const parameter of Blake2b<BITS> the model instantiates
BITS == 256

\* (BITS + 7) / 8
OutLen == (BITS + 7) \div 8

\* Blake2b::new_keyed(key)
Blake2b_new_keyed(key) ==
  IF ~(BITS > 0 /\ OutLen <= MAX_OUTLEN) \/ Len(key) > MAX_KEYLEN THEN Panic
  ELSE Ret([eng      |-> Engine_new(OutLen, Len(key)),
            buf      |-> IF Len(key) > 0 THEN CopyAt(Zeros(BLOCK_BYTES), 0, key)
                         ELSE Zeros(BLOCK_BYTES),
            buflen   |-> IF Len(key) > 0 THEN BLOCK_BYTES ELSE 0,
            computed |-> FALSE])

\* Blake2b::new()
Blake2b_new ==
  IF ~(BITS > 0 /\ OutLen <= MAX_OUTLEN) THEN Panic
  ELSE Blake2b_new_keyed(<<>>)

\* the while loop of update: whole blocks of the input, but for the last
RECURSIVE UpdateWhole(_, _)
UpdateWhole(eng, input) ==
  IF Len(input) > BLOCK_BYTES
  THEN UpdateWhole(
         Engine_compress(Engine_increment_counter(eng, BLOCK_BYTES),
                         Slice(input, 0, BLOCK_BYTES), FALSE),
         Slice(input, BLOCK_BYTES, Len(input)))
  ELSE <<eng, input>>

\* the branch of update for an input longer than the room left in buf
UpdateFill(c, input, fill) ==
  UpdateWhole(
    Engine_compress(Engine_increment_counter(c.eng, BLOCK_BYTES),
                    CopyAt(c.buf, c.buflen, Slice(input, 0, fill)), FALSE),
    Slice(input, fill, Len(input)))

\* the end of update: the rest of the input goes into buf
UpdateRest(c, eng, buflen, buf, input) ==
  [c EXCEPT !.eng = eng,
            !.buf = CopyAt(buf, buflen, input),
            !.buflen = buflen + Len(input)]

\* the end of update after the branch, which left r = <<eng, input>>
UpdateAfterFill(c, r, fill, input) ==
  UpdateRest(c, r[1], 0, CopyAt(c.buf, c.buflen, Slice(input, 0, fill)), r[2])

\* self.update(input)
Blake2b_update(c, input) ==
  IF Len(input) = 0 THEN c
  ELSE IF Len(input) > BLOCK_BYTES - c.buflen
  THEN UpdateAfterFill(c, UpdateFill(c, input, BLOCK_BYTES - c.buflen),
                       BLOCK_BYTES - c.buflen, input)
  ELSE UpdateRest(c, c.eng, c.buflen, c.buf, input)

\* the engine after the last block of finalize
FinalEngine(c) ==
  Engine_compress(Engine_increment_counter(c.eng, c.buflen),
                  ZeroFrom(c.buf, c.buflen), TRUE)

\* the context once h of the engine eng is written to buf, and out
Finalized(c, eng, n) ==
  Ret([ctx |-> [c EXCEPT !.eng = eng,
                         !.buf = CopyAt(ZeroFrom(c.buf, c.buflen), 0, eng.h),
                         !.computed = TRUE],
       out |-> Slice(eng.h, 0, n)])

\* self.finalize(out) with out.len() = n: the context left, and out
Blake2b_finalize(c, n) ==
  IF n # OutLen THEN Panic
  ELSE IF ~c.computed THEN Finalized(c, FinalEngine(c), n)
  ELSE Ret([ctx |-> c, out |-> Slice(c.buf, 0, n)])

\* self.reset()
Blake2b_reset(c) ==
  [eng      |-> Engine_reset(c.eng, OutLen, 0),
   buf      |-> Zeros(BLOCK_BYTES),
   buflen   |-> 0,
   computed |-> FALSE]

\* reset_with_key that leaves what buf held in place under a non-empty key
Blake2b_reset_with_key_stale_buf(c, key) ==
  IF Len(key) > MAX_KEYLEN THEN Panic
  ELSE Ret([eng      |-> Engine_reset(c.eng, OutLen, Len(key)),
            buf      |-> IF Len(key) > 0 THEN CopyAt(c.buf, 0, key)
                         ELSE Zeros(BLOCK_BYTES),
            buflen   |-> IF Len(key) > 0 THEN BLOCK_BYTES ELSE 0,
            computed |-> FALSE])

\* self.reset_with_key(key)
Blake2b_reset_with_key(c, key) ==
  IF Len(key) > MAX_KEYLEN THEN Panic
  ELSE Ret([eng      |-> Engine_reset(c.eng, OutLen, Len(key)),
            buf      |-> IF Len(key) > 0 THEN CopyAt(Zeros(BLOCK_BYTES), 0, key)
                         ELSE Zeros(BLOCK_BYTES),
            buflen   |-> IF Len(key) > 0 THEN BLOCK_BYTES ELSE 0,
            computed |-> FALSE])

\* <Blake2b as Mac>::input(data)
Blake2b_Mac_input(c, data) == Blake2b_update(c, data)

\* <Blake2b as Mac>::reset()
Blake2b_Mac_reset(c) == Blake2b_reset(c)

\* <Blake2b as Mac>::raw_result(output) with output.len() = n
Blake2b_Mac_raw_result(c, n) == Blake2b_finalize(c, n)

---------------------------------------------------------------------------
(* src/src/hmac.rs, with Blake2b<BITS> of blake2b.rs as the digest D.  An  *)
(* Hmac is the record of the fields of struct Hmac.                        *)

\* <Blake2b as Digest>::input(msg)
Digest_input(d, msg) == Blake2b_update(d, msg)

\* <Blake2b as Digest>::reset()
Digest_reset(d) == Blake2b_reset(d)

\* <Blake2b as Digest>::result(out) with out.len() = n
Digest_result(d, n) == Blake2b_finalize(d, n)

\* <Blake2b as Digest>::block_size()
Digest_block_size == BLOCK_BYTES

\* D::OUTPUT_BYTES
OUTPUT_BYTES == (BITS + 7) \div 8

\* derive_key(key, mask)
derive_key(key, mask) ==
  SubSeq([i \in 1..Len(key) |-> Xor(key[i], mask)], 1, Len(key))

\* the branch of expand_key for a long key, once the digest of the key
\* was read: r is what digest.result left
ExpandedLong(r) ==
  [digest |-> Digest_reset(r.ctx),
   key    |-> CopyAt(Zeros(Digest_block_size), 0, r.out)]

\* expand_key that does not reset the digest after hashing a long key
expand_key_without_reset(digest, key) ==
  IF Len(key) <= Digest_block_size
  THEN [digest |-> digest,
        key    |-> CopyAt(Zeros(Digest_block_size), 0, key)]
  ELSE [ExpandedLong(Digest_result(Digest_input(digest, key),
                                   OUTPUT_BYTES).val)
          EXCEPT !.digest = Digest_input(digest, key)]

\* expand_key(digest, key): the digest as it is left, and the expanded key
expand_key(digest, key) ==
  IF Len(key) <= Digest_block_size
  THEN [digest |-> digest,
        key    |-> CopyAt(Zeros(Digest_block_size), 0, key)]
  ELSE ExpandedLong(Digest_result(Digest_input(digest, key),
                                  OUTPUT_BYTES).val)

\* the keys made of the expanded key e.key, and the digest as it is left
KeysOf(e) ==
  [digest |-> e.digest,
   i_key  |-> derive_key(e.key, 54),
   o_key  |-> derive_key(e.key, 92)]

\* create_keys(digest, key): the digest as it is left, i_key and o_key
create_keys(digest, key) == KeysOf(expand_key(digest, key))

\* the struct that Hmac::new builds from what create_keys gave
HmacOf(keys) ==
  [digest   |-> Digest_input(keys.digest, keys.i_key),
   i_key    |-> keys.i_key,
   o_key    |-> keys.o_key,
   finished |-> FALSE]

\* Hmac::new(digest, key)
Hmac_new(digest, key) == HmacOf(create_keys(digest, key))

\* <Hmac as Mac>::input(data)
Hmac_input(h, data) ==
  IF h.finished THEN Panic
  ELSE Ret([h EXCEPT !.digest = Digest_input(@, data)])

\* reset that starts the digest again without feeding it the inner key
Hmac_reset_without_inner_key(h) ==
  [h EXCEPT !.digest = Digest_reset(@),
            !.finished = FALSE]

\* <Hmac as Mac>::reset()
Hmac_reset(h) ==
  [h EXCEPT !.digest = Digest_input(Digest_reset(@), h.i_key),
            !.finished = FALSE]

\* the digest of raw_result once the inner code was read and the outer
\* key and the inner code were fed
OuterDigest(h, inner) ==
  Digest_input(Digest_input(Digest_reset(inner.ctx), h.o_key), inner.out)

\* the Hmac that raw_result leaves finished, outer being what the last
\* digest.result left, and the code
RawResultDone(h, outer) ==
  Ret([mac |-> [h EXCEPT !.digest = outer.ctx, !.finished = TRUE],
       out |-> outer.out])

\* raw_result of an Hmac that is not finished, inner being what the first
\* digest.result gave
RawResultFirst(h, inner, n) ==
  IF inner.panic THEN Panic
  ELSE RawResultDone(h, Digest_result(OuterDigest(h, inner.val), n).val)

\* <Hmac as Mac>::raw_result(output) with output.len() = n: the Hmac left,
\* and output
Hmac_raw_result(h, n) ==
  IF ~h.finished THEN RawResultFirst(h, Digest_result(h.digest, n), n)
  ELSE IF Digest_result(h.digest, n).panic THEN Panic
  ELSE Ret([mac |-> [h EXCEPT !.digest = Digest_result(@, n).val.ctx],
            out |-> Digest_result(h.digest, n).val.out])

\* <Hmac as Mac>::output_bytes()
Hmac_output_bytes == OUTPUT_BYTES

---------------------------------------------------------------------------
(* src/src/pbkdf2.rs, with Hmac<Blake2b<BITS>> as the Mac M.  The loops    *)
(* run on st = <<mac, block, scratch, evals>>, evals counting the calls of *)
(* mac.raw_result made so far.                                             *)

\* write_u32_be(&mut idx_buf, idx) of crate::cryptoutil
write_u32_be(idx) ==
  <<(idx \div 16777216) % 256, (idx \div 65536) % 256,
    (idx \div 256) % 256, idx % 256>>

\* for (output, &input) in block.iter_mut().zip(scratch.iter())
\*   { *output ^= input }
XorInto(block, scratch) ==
  SubSeq([i \in 1..Len(block) |->
            IF i <= Len(scratch) THEN Xor(block[i], scratch[i])
            ELSE block[i]],
         1, Len(block))

\* mac.raw_result(buf); mac.reset(): the mac left and what buf holds
ReadAndReset(r) == <<Hmac_reset(r.val.mac), r.val.out>>

\* mac.input(data); mac.raw_result(buf); mac.reset()
MacRound(mac, data, n) ==
  ReadAndReset(Hmac_raw_result(Hmac_input(mac, data).val, n))

\* mac.input(salt); mac.input(&idx_buf); mac.raw_result(block); mac.reset()
FirstRound(mac, salt, idx, n) ==
  ReadAndReset(
    Hmac_raw_result(
      Hmac_input(Hmac_input(mac, salt).val, write_u32_be(idx)).val, n))

\* the state once the first code is in block
AfterFirst(r, scratch, evals) == <<r[1], r[2], scratch, evals + 1>>

\* the state once a further code is in scratch and xored into block
AfterRound(st, r) == <<r[1], XorInto(st[2], r[2]), r[2], st[4] + 1>>

\* the body of `if c > 1`: the mac is fed block
SecondRound(st) == AfterRound(st, MacRound(st[1], st[2], Len(st[3])))

\* the body of `for _ in 2..c`: the mac is fed scratch
LaterRound(st) == AfterRound(st, MacRound(st[1], st[3], Len(st[3])))

\* the rounds after the first, on the state the first left
LaterRounds(st, c) ==
  Loop(LaterRound, IF c > 1 THEN SecondRound(st) ELSE st,
       IF c > 2 THEN c - 2 ELSE 0)

\* calculate_block whose second round feeds the mac scratch, not block
calculate_block_second_from_scratch(mac, salt, c, idx, scratch, n, evals) ==
  Loop(LaterRound,
       IF c > 1
       THEN LaterRound(AfterFirst(FirstRound(mac, salt, idx, n), scratch,
                                  evals))
       ELSE AfterFirst(FirstRound(mac, salt, idx, n), scratch, evals),
       IF c > 2 THEN c - 2 ELSE 0)

\* calculate_block(mac, salt, c, idx, scratch, block) with block.len() = n,
\* evals raw_result calls having been made before
calculate_block(mac, salt, c, idx, scratch, n, evals) ==
  LaterRounds(AfterFirst(FirstRound(mac, salt, idx, n), scratch, evals), c)

\* what is written to a chunk of chunk_len bytes of output: the block, or
\* the head of the block computed in tmp
ChunkOf(block, chunk_len, os) ==
  IF chunk_len = os THEN block ELSE Slice(block, 0, chunk_len)

\* the loop over output.chunks_mut(os) on
\* ps = <<mac, scratch, output so far, idx, evals>>, n bytes being asked
ChunkDone(ps, blk, n, os) ==
  <<blk[1], blk[3],
    ps[3] \o ChunkOf(blk[2], IF n - Len(ps[3]) < os THEN n - Len(ps[3])
                             ELSE os, os),
    ps[4] + 1, blk[4]>>

\* one chunk
ChunkStep(ps, salt, c, n, os) ==
  IF Len(ps[3]) >= n THEN ps
  ELSE ChunkDone(ps,
                 calculate_block(ps[1], salt, c, ps[4] + 1, ps[2], os, ps[5]),
                 n, os)

\* what pbkdf2 leaves: the mac, output, and the raw_result calls made
PbkdfResult(ps) == Ret([mac |-> ps[1], out |-> ps[3], evals |-> ps[5]])

\* pbkdf2(mac, salt, c, output) with output.len() = n
pbkdf2(mac, salt, c, n) ==
  IF ~(c > 0) THEN Panic
  ELSE PbkdfResult(
         Loop(LAMBDA ps : ChunkStep(ps, salt, c, n, Hmac_output_bytes),
              <<mac, Zeros(Hmac_output_bytes), <<>>, 0, 0>>,
              (n + Hmac_output_bytes - 1) \div Hmac_output_bytes))

---------------------------------------------------------------------------
(* The caller.  The library holds no state: the state is what a caller     *)
(* holds between calls, and every action is one call of a public function  *)
(* (or the caller preparing the arguments of the next call).               *)

\* how many seeds the caller draws from
NumSeeds == 2

\* the longest message signed
MaxMsgLen == 1

Seed(k) == SubSeq([j \in 1..32 |-> (41 * k + 11 * j + k * j * j) % 256], 1, 32)

Seeds == {Seed(k) : k \in 1..NumSeeds}

MsgBytes == {97, 98}

Messages == UNION {[1..n -> MsgBytes] : n \in 0..MaxMsgLen}

\* buf with the bits of mask flipped in the byte at source index i
FlipAt(buf, i, mask) == [buf EXCEPT ![i + 1] = Xor(@, mask)]

\* buf cut or zero-extended to n bytes
Resize(buf, n) ==
  IF n <= Len(buf) THEN SubSeq(buf, 1, n) ELSE buf \o Zeros(n - Len(buf))

\* (index, mask) pairs: the single bits flipped in a presented buffer
MsgFlips == {<<0, 1>>, <<0, 128>>}

PubFlips == {<<0, 1>>, <<0, 2>>, <<12, 16>>, <<31, 64>>, <<31, 128>>}

SigFlips == {<<0, 1>>, <<20, 4>>, <<31, 128>>, <<32, 1>>, <<40, 32>>,
             <<63, 16>>, <<63, 128>>}

\* what the holder of an honest (message, public, signature) may present
Tampers ==
  {[kind |-> "none", at |-> <<0, 0>>]}
  \cup {[kind |-> "msg_flip", at |-> f] : f \in MsgFlips}
  \cup {[kind |-> "pub_flip", at |-> f] : f \in PubFlips}
  \cup {[kind |-> "sig_flip", at |-> f] : f \in SigFlips}
  \cup {[kind |-> k, at |-> <<0, 0>>] :
          k \in {"s_plus_l", "s_ones", "pub_zero", "pub_zero_forged",
                 "pub_ones"}}

Ones(k) == SubSeq([i \in 1..k |-> 255], 1, k)

\* the message presented under tamper t
PresentedMessage(t, m) ==
  IF t.kind = "msg_flip" THEN FlipAt(m, t.at[1], t.at[2]) ELSE m

\* the public key presented under tamper t
PresentedPublic(t, pk) ==
  CASE t.kind = "pub_flip" -> FlipAt(pk, t.at[1], t.at[2])
    [] t.kind \in {"pub_zero", "pub_zero_forged"} -> Zeros(32)
    [] t.kind = "pub_ones" -> Ones(32)
    [] OTHER -> pk

\* the signature presented under tamper t
PresentedSignature(t, sg) ==
  LET R == Slice(sg, 0, 32)
      S == Slice(sg, 32, 64)
  IN  CASE t.kind = "sig_flip" -> FlipAt(sg, t.at[1], t.at[2])
        [] t.kind = "s_plus_l" -> R \o SubSeq(BigAdd(S, GroupOrder), 1, 32)
        [] t.kind = "s_ones" -> R \o Ones(32)
        [] t.kind = "pub_zero_forged" ->
             Ge_to_bytes(ge_scalarmult_base(S)) \o S
        [] OTHER -> sg

\* the operations called with a buffer of n bytes, and the lengths tried
LenOps == {"keypair", "signature", "signature_extended", "to_public",
           "verify_public", "verify_signature", "exchange_public",
           "exchange_private"}

Lengths == {0, 31, 32, 33, 63, 64, 65}

\* the length the documentation of the operation asks of that argument
RightLength(op) ==
  CASE op = "keypair" -> SEED_LENGTH
    [] op \in {"signature", "signature_extended", "to_public",
               "exchange_private"} -> PRIVATE_KEY_LENGTH
    [] op \in {"verify_public", "exchange_public"} -> PUBLIC_KEY_LENGTH
    [] op = "verify_signature" -> SIGNATURE_LENGTH

VARIABLES
  pc,          \* where the caller is
  seed,        \* the seed of the caller's key pair
  secret,      \* keypair(seed).0
  public,      \* keypair(seed).1
  message,     \* the message signed
  sk,          \* the 64-byte secret key handed to signature
  sig,         \* signature(message, sk)
  sig2,        \* signature(message, sk) once more, after other calls
  ext,         \* the extended secret: clamped scalar, then prefix
  epub,        \* to_public(ext)
  tamper,      \* what the presenter changed
  vmessage,    \* the message presented to verify
  vpublic,     \* the public key presented to verify
  vsig,        \* the signature presented to verify
  vres,        \* what verify gave back
  peer_seed,   \* the peer's seed
  peer_secret, \* keypair(peer_seed).0
  peer_public, \* keypair(peer_seed).1
  shared_ab,   \* exchange(peer_public, secret)
  shared_ba,   \* exchange(public, peer_secret)
  call         \* a call with a buffer of some length, and its outcome

keyVars == <<seed, secret, public>>

signVars == <<message, sk, sig, sig2>>

extVars == <<ext, esig, epub>>

verifyVars == <<tamper, vmessage, vpublic, vsig, vres>>

peerVars == <<peer_seed, peer_secret, peer_public, shared_ab, shared_ba>>

\* The contexts of blake2b.rs, hmac.rs and pbkdf2.rs under test.
VARIABLES
  unit,        \* which of them the caller is exercising
  ctx,         \* a Blake2b context
  ckey,        \* the key the context was created with
  cfed,        \* the inputs fed since the context was last initialised
  cdone,       \* whether its result was read since then
  chow,        \* how the context was last initialised
  cprev,       \* whether the context had been fed, and read, when reset
  cout         \* the last result read from the context

blakeVars == <<ctx, ckey, cfed, cdone, chow, cprev, cout>>

VARIABLES
  hmac,        \* an Hmac
  hkey,        \* the key it was created with
  hfed,        \* the inputs fed since it was created or reset
  hdone,       \* whether raw_result was called since then
  hhow,        \* whether it is as created, or was reset
  hlast,       \* the last call made on it
  hwas,        \* whether it was finished when that call was made
  hprev,       \* the code held before that call
  hcode,       \* the code raw_result wrote
  hpanic       \* whether the last input call aborted

hmacVars ==
  <<hmac, hkey, hfed, hdone, hhow, hlast, hwas, hprev, hcode, hpanic>>

VARIABLES
  ksalt,       \* the salt given to pbkdf2
  kc,          \* the iteration count given to pbkdf2
  klen,        \* the length of the output buffer given to pbkdf2
  kres         \* what pbkdf2 left: a panic, or output and the mac

kdfVars == <<ksalt, kc, klen, kres>>

VARIABLES
  cin,         \* a 64-byte hash output
  kclamp,      \* the scalar keypair and signature make of it
  xclamp       \* the scalar exchange makes of it

clampVars == <<cin, kclamp, xclamp>>

hashVars == <<unit, blakeVars, hmacVars, kdfVars, clampVars>>

edVars == <<pc, keyVars, signVars, extVars, verifyVars, peerVars, call>>

vars == <<edVars, hashVars>>

NoCall == [op |-> "none", len |-> 0, res |-> Panic]

Init ==
  /\ pc = "idle"
  /\ seed = <<>> /\ secret = <<>> /\ public = <<>>
  /\ message = <<>> /\ sk = <<>> /\ sig = <<>> /\ sig2 = <<>>
  /\ ext = <<>> /\ esig = <<>> /\ epub = <<>>
  /\ tamper = [kind |-> "none", at |-> <<0, 0>>]
  /\ vmessage = <<>> /\ vpublic = <<>> /\ vsig = <<>> /\ vres = Panic
  /\ peer_seed = <<>> /\ peer_secret = <<>> /\ peer_public = <<>>
  /\ shared_ab = <<>> /\ shared_ba = <<>>
  /\ call = NoCall
  /\ unit = "none"
  /\ ctx = Blake2b_new.val /\ ckey = <<>> /\ cfed = <<>> /\ cdone = FALSE
  /\ chow = "none" /\ cprev = [fed |-> FALSE, done |-> FALSE] /\ cout = <<>>
  /\ hmac = Hmac_new(Blake2b_new.val, <<>>) /\ hkey = <<>> /\ hfed = <<>>
  /\ hdone = FALSE /\ hhow = "none" /\ hlast = "none" /\ hwas = FALSE
  /\ hprev = <<>> /\ hcode = <<>> /\ hpanic = FALSE
  /\ ksalt = <<>> /\ kc = 0 /\ klen = 0 /\ kres = Panic
  /\ cin = <<>> /\ kclamp = <<>> /\ xclamp = <<>>

\* h[0..32] clamped: bits 0-2 of byte 0 cleared, bit 7 of byte 31 cleared,
\* bit 6 of byte 31 set
ClampScalar(h) ==
  [Slice(h, 0, 32) EXCEPT ![1]  = (@ \div 8) * 8,
                          ![32] = (@ % 64) + 64]

\* the extended secret of a seed: the clamped scalar, then the prefix
ExtendedSecret(sd) == ClampScalar(Sha512(sd)) \o Slice(Sha512(sd), 32, 64)

\* let (secret, public) = keypair(seed)
Keypair(sd) ==
  /\ pc = "idle"
  /\ LET kp == keypair(sd).val IN
       /\ seed' = sd
       /\ secret' = kp[1]
       /\ public' = kp[2]
  /\ pc' = "keyed"
  /\ UNCHANGED <<hashVars, signVars, extVars, verifyVars, peerVars, call>>

\* signature(message, secret): the secret key is the caller's own
Sign(m) ==
  /\ pc = "keyed"
  /\ message' = m
  /\ sk' = secret
  /\ sig' = signature(m, secret).val
  /\ sig2' = sig2
  /\ pc' = "signed"
  /\ UNCHANGED <<hashVars, keyVars, extVars, verifyVars, peerVars, call>>

\* signature(message, seed || A) for a 32-byte A that is not the public key
\* of the seed
SignForeign(m, f) ==
  /\ pc = "keyed"
  /\ message' = m
  /\ sk' = FlipAt(secret, 32 + f[1], f[2])
  /\ sig' = signature(m, sk').val
  /\ sig2' = sig2
  /\ pc' = "signed_foreign"
  /\ UNCHANGED <<hashVars, keyVars, extVars, verifyVars, peerVars, call>>

\* signature_extended(message, ext), the caller having derived the scalar
\* and the prefix from the seed
SignExtended ==
  /\ pc = "signed"
  /\ ext' = ExtendedSecret(seed)
  /\ esig' = signature_extended(message, ext').val
  /\ epub' = epub
  /\ pc' = "signed_extended"
  /\ UNCHANGED <<hashVars, keyVars, signVars, verifyVars, peerVars, call>>

\* to_public(ext)
ToPublic ==
  /\ pc = "signed_extended"
  /\ epub' = to_public(ext).val
  /\ pc' = "extended_public"
  /\ UNCHANGED <<hashVars, keyVars, signVars, ext, esig, verifyVars, peerVars,
                 call>>

\* the holder of (message, public, sig) presents a triple to a verifier
Present(t) ==
  /\ pc = "signed"
  /\ t.kind = "msg_flip" => Len(message) > t.at[1]
  /\ tamper' = t
  /\ vmessage' = PresentedMessage(t, message)
  /\ vpublic' = PresentedPublic(t, public)
  /\ vsig' = PresentedSignature(t, sig)
  /\ vres' = vres
  /\ pc' = "presented"
  /\ UNCHANGED <<hashVars, keyVars, signVars, extVars, peerVars, call>>

\* verify(vmessage, vpublic, vsig)
Verify ==
  /\ pc = "presented"
  /\ vres' = verify(vmessage, vpublic, vsig)
  /\ pc' = "verified"
  /\ UNCHANGED <<hashVars, keyVars, signVars, extVars, tamper, vmessage,
                 vpublic, vsig, peerVars, call>>

\* signature(message, sk) a second time, after signature_extended and
\* to_public, or after verify, were called
SignAgain ==
  /\ \/ pc = "extended_public"
     \/ pc = "verified" /\ tamper.kind = "none"
  /\ sig2' = signature(message, sk).val
  /\ pc' = "signed_again"
  /\ UNCHANGED <<hashVars, keyVars, message, sk, sig, extVars, verifyVars,
                 peerVars, call>>

\* the peer's key pair: keypair(peer seed)
PeerKeypair(sd) ==
  /\ pc = "keyed"
  /\ LET kp == keypair(sd).val IN
       /\ peer_seed' = sd
       /\ peer_secret' = kp[1]
       /\ peer_public' = kp[2]
  /\ pc' = "paired"
  /\ UNCHANGED <<hashVars, keyVars, signVars, extVars, verifyVars, shared_ab,
                 shared_ba, call>>

\* the caller's side: exchange(peer_public, secret)
ExchangeA ==
  /\ pc = "paired"
  /\ shared_ab' = exchange(peer_public, secret).val
  /\ pc' = "half_agreed"
  /\ UNCHANGED <<hashVars, keyVars, signVars, extVars, verifyVars, peer_seed,
                 peer_secret, peer_public, shared_ba, call>>

\* the peer's side: exchange(public, peer_secret)
ExchangeB ==
  /\ pc = "half_agreed"
  /\ shared_ba' = exchange(public, peer_secret).val
  /\ pc' = "agreed"
  /\ UNCHANGED <<hashVars, keyVars, signVars, extVars, verifyVars, peer_seed,
                 peer_secret, peer_public, shared_ab, call>>

\* one call with the named argument n bytes long, the other arguments as
\* the documentation asks
CallWithLength(op, n) ==
  /\ pc = "keyed"
  /\ LET msg == <<97>>
         sg  == Resize(public, 64)
     IN  call' =
           [op  |-> op,
            len |-> n,
            res |->
              CASE op = "keypair" -> keypair(Resize(seed, n))
                [] op = "signature" -> signature(msg, Resize(secret, n))
                [] op = "signature_extended" ->
                     signature_extended(msg, Resize(secret, n))
                [] op = "to_public" -> to_public(Resize(secret, n))
                [] op = "verify_public" ->
                     verify(msg, Resize(public, n), sg)
                [] op = "verify_signature" ->
                     verify(msg, public, Resize(sg, n))
                [] op = "exchange_public" ->
                     exchange(Resize(public, n), secret)
                [] op = "exchange_private" ->
                     exchange(public, Resize(secret, n))]
  /\ pc' = "called"
  /\ UNCHANGED <<hashVars, keyVars, signVars, extVars, verifyVars, peerVars>>

Next ==
  \/ \E sd \in Seeds : Keypair(sd)
  \/ \E m \in Messages : Sign(m)
  \/ \E m \in Messages, f \in PubFlips : SignForeign(m, f)
  \/ SignExtended
  \/ ToPublic
  \/ \E t \in Tampers : Present(t)
  \/ Verify
  \/ SignAgain
  \/ \E sd \in Seeds : PeerKeypair(sd)
  \/ ExchangeA
  \/ ExchangeB
  \/ \E op \in LenOps, n \in Lengths : CallWithLength(op, n)

Spec == Init /\ [][Next]_vars

---------------------------------------------------------------------------
(* The caller of blake2b.rs: one context, created keyed or not, fed, read, *)
(* and initialised again once by one of the three resets.                  *)

\* how many inputs are fed between two initialisations of a context
MaxInputs == 2

\* n bytes that depend on their position and on v
Pattern(n, v) == SubSeq([i \in 1..n |-> (7 * i + v) % 256], 1, n)

\* the keys tried: none, one byte, the longest allowed
BlakeKeys == {<<>>, Pattern(1, 200), Pattern(MAX_KEYLEN, 3)}

\* the inputs fed: a byte, a whole block, two blocks and three bytes
BlakeInputs ==
  {Pattern(1, 97), Pattern(BLOCK_BYTES, 5), Pattern(2 * BLOCK_BYTES + 3, 11)}

\* a context after the chunks were fed to it in turn
RECURSIVE FeedAll(_, _)
FeedAll(c, chunks) ==
  IF Len(chunks) = 0 THEN c
  ELSE FeedAll(Blake2b_update(c, Head(chunks)), Tail(chunks))

\* let ctx = Blake2b::new()
BlakeNew ==
  /\ unit = "none"
  /\ unit' = "blake2b"
  /\ ctx' = Blake2b_new.val
  /\ ckey' = <<>>
  /\ chow' = "new"
  /\ UNCHANGED <<edVars, hmacVars, kdfVars, clampVars, cfed, cdone, cprev,
                 cout>>

\* let ctx = Blake2b::new_keyed(key)
BlakeNewKeyed(key) ==
  /\ unit = "none"
  /\ unit' = "blake2b"
  /\ ctx' = Blake2b_new_keyed(key).val
  /\ ckey' = key
  /\ chow' = "new_keyed"
  /\ UNCHANGED <<edVars, hmacVars, kdfVars, clampVars, cfed, cdone, cprev,
                 cout>>

\* ctx.input(data), before the result was read
BlakeInput(data) ==
  /\ unit = "blake2b"
  /\ ~cdone
  /\ Len(cfed) < MaxInputs
  /\ ctx' = Blake2b_Mac_input(ctx, data)
  /\ cfed' = Append(cfed, data)
  /\ UNCHANGED <<edVars, hmacVars, kdfVars, clampVars, unit, ckey, chow, cdone,
                 cprev, cout>>

\* ctx.raw_result(&mut out) with out of the length of the code
BlakeResult ==
  /\ unit = "blake2b"
  /\ \E r \in {Blake2b_Mac_raw_result(ctx, OutLen)} :
       ctx' = r.val.ctx /\ cout' = r.val.out
  /\ cdone' = TRUE
  /\ UNCHANGED <<edVars, hmacVars, kdfVars, clampVars, unit, ckey, cfed, chow,
                 cprev>>

\* ctx.reset() of the inherent impl
BlakeReset ==
  /\ unit = "blake2b"
  /\ chow \in {"new", "new_keyed"}
  /\ ctx' = Blake2b_reset(ctx)
  /\ ckey' = <<>>
  /\ cprev' = [fed |-> Len(cfed) > 0, done |-> cdone]
  /\ cfed' = <<>> /\ cdone' = FALSE /\ cout' = <<>>
  /\ chow' = "reset"
  /\ UNCHANGED <<edVars, hmacVars, kdfVars, clampVars, unit>>

\* ctx.reset_with_key(key)
BlakeResetWithKey(key) ==
  /\ unit = "blake2b"
  /\ chow \in {"new", "new_keyed"}
  /\ ctx' = Blake2b_reset_with_key(ctx, key).val
  /\ ckey' = key
  /\ cprev' = [fed |-> Len(cfed) > 0, done |-> cdone]
  /\ cfed' = <<>> /\ cdone' = FALSE /\ cout' = <<>>
  /\ chow' = "reset_with_key"
  /\ UNCHANGED <<edVars, hmacVars, kdfVars, clampVars, unit>>

\* Mac::reset(&mut ctx): the caller goes on under the key it created the
\* context with
BlakeMacReset ==
  /\ unit = "blake2b"
  /\ chow \in {"new", "new_keyed"}
  /\ ctx' = Blake2b_Mac_reset(ctx)
  /\ cprev' = [fed |-> Len(cfed) > 0, done |-> cdone]
  /\ cfed' = <<>> /\ cdone' = FALSE /\ cout' = <<>>
  /\ chow' = "mac_reset"
  /\ UNCHANGED <<edVars, hmacVars, kdfVars, clampVars, unit, ckey>>

---------------------------------------------------------------------------
(* The caller of hmac.rs: one Hmac over a fresh digest, fed, read (more    *)
(* than once), fed while finished, and reset once.                         *)

\* the keys tried: none, shorter than a block, a block, longer than a block
HmacKeys ==
  {<<>>, Pattern(3, 74), Pattern(BLOCK_BYTES, 9), Pattern(BLOCK_BYTES + 1, 9)}

\* the inputs fed: two bytes, and a block and two bytes
HmacInputs == {Pattern(2, 104), Pattern(BLOCK_BYTES + 2, 17)}

\* the chunks one after the other
RECURSIVE Concat(_)
Concat(chunks) ==
  IF Len(chunks) = 0 THEN <<>> ELSE Head(chunks) \o Concat(Tail(chunks))

\* an Hmac after the chunks were fed to it in turn, none while finished
RECURSIVE InputAll(_, _)
InputAll(h, chunks) ==
  IF Len(chunks) = 0 THEN h
  ELSE InputAll(Hmac_input(h, Head(chunks)).val, Tail(chunks))

\* let hmac = Hmac::new(Blake2b::new(), key)
HmacNew(key) ==
  /\ unit = "none"
  /\ unit' = "hmac"
  /\ hmac' = Hmac_new(Blake2b_new.val, key)
  /\ hkey' = key
  /\ hhow' = "new"
  /\ hlast' = "new"
  /\ UNCHANGED <<edVars, blakeVars, kdfVars, clampVars, hfed, hdone, hwas,
                 hprev, hcode, hpanic>>

\* hmac.input(data), finished or not
HmacInput(data) ==
  /\ unit = "hmac"
  /\ Len(hfed) < MaxInputs
  /\ hwas' = hmac.finished
  /\ \E r \in {Hmac_input(hmac, data)} :
       /\ hpanic' = r.panic
       /\ IF r.panic
          THEN unit' = "aborted" /\ UNCHANGED <<hmac, hfed>>
          ELSE /\ hmac' = r.val
               /\ hfed' = Append(hfed, data)
               /\ unit' = unit
  /\ hlast' = "input"
  /\ UNCHANGED <<edVars, blakeVars, kdfVars, clampVars, hkey, hdone, hhow,
                 hprev, hcode>>

\* hmac.raw_result(&mut code) with code of output_bytes() bytes, a first
\* time or again
HmacRawResult ==
  /\ unit = "hmac"
  /\ hlast # "raw_result" \/ ~hwas
  /\ hwas' = hmac.finished
  /\ hprev' = hcode
  /\ \E r \in {Hmac_raw_result(hmac, Hmac_output_bytes)} :
       hmac' = r.val.mac /\ hcode' = r.val.out
  /\ hdone' = TRUE
  /\ hlast' = "raw_result"
  /\ UNCHANGED <<edVars, blakeVars, kdfVars, clampVars, unit, hkey, hfed, hhow,
                 hpanic>>

\* hmac.reset()
HmacReset ==
  /\ unit = "hmac"
  /\ hhow = "new"
  /\ hmac' = Hmac_reset(hmac)
  /\ hfed' = <<>> /\ hdone' = FALSE /\ hcode' = <<>> /\ hprev' = <<>>
  /\ hwas' = hmac.finished
  /\ hhow' = "reset"
  /\ hlast' = "reset"
  /\ UNCHANGED <<edVars, blakeVars, kdfVars, clampVars, unit, hkey, hpanic>>

---------------------------------------------------------------------------
(* The caller of pbkdf2.rs: a freshly made Hmac, then one call of pbkdf2.   *)

\* the largest iteration count tried
MaxIter == 3

\* the passwords: shorter than a block, longer than a block
PbkdfKeys == {Pattern(8, 112), Pattern(BLOCK_BYTES + 1, 9)}

\* the salts: none, four bytes
PbkdfSalts == {<<>>, Pattern(4, 115)}

\* the lengths of output asked for: nothing, less than a block, a block,
\* a block and a byte, two blocks, two blocks and five bytes
PbkdfLengths ==
  {0, 1, OUTPUT_BYTES, OUTPUT_BYTES + 1, 2 * OUTPUT_BYTES,
   2 * OUTPUT_BYTES + 5}

\* let mut mac = Hmac::new(Blake2b::new(), password)
PbkdfMac(key) ==
  /\ unit = "none"
  /\ unit' = "pbkdf2"
  /\ hmac' = Hmac_new(Blake2b_new.val, key)
  /\ hkey' = key
  /\ UNCHANGED <<edVars, blakeVars, clampVars, hfed, hdone, hhow, hlast, hwas,
                 hprev, hcode, hpanic, kdfVars>>

\* pbkdf2(&mut mac, salt, c, &mut output) with output of n bytes
Pbkdf2(salt, c, n) ==
  /\ unit = "pbkdf2"
  /\ ksalt' = salt /\ kc' = c /\ klen' = n
  /\ kres' = pbkdf2(hmac, salt, c, n)
  /\ hmac' = IF kres'.panic THEN hmac ELSE kres'.val.mac
  /\ unit' = "derived"
  /\ UNCHANGED <<edVars, blakeVars, clampVars, hkey, hfed, hdone, hhow, hlast,
                 hwas, hprev, hcode, hpanic>>

---------------------------------------------------------------------------
(* The two clamps of ed25519.rs on the same 64-byte hash output.           *)

\* a 64-byte hash output whose bytes all depend on b, byte 31 being b
HashWith(b) == SubSeq([i \in 1..64 |-> (b + 11 * (32 - i)) % 256], 1, 64)

\* the hash outputs tried: every value of byte 31
ClampHashes == {HashWith(b) : b \in Byte}

\* both clamps applied to the hash output h, the scalar being h[0..32]
Clamp(h) ==
  /\ unit = "none"
  /\ unit' = "clamped"
  /\ cin' = h
  /\ kclamp' = Slice(KeypairClamp(h), 0, 32)
  /\ xclamp' = Slice(ExchangeClamp(h), 0, 32)
  /\ UNCHANGED <<edVars, blakeVars, hmacVars, kdfVars>>

HashNext ==
  \/ BlakeNew
  \/ \E key \in BlakeKeys : BlakeNewKeyed(key)
  \/ \E data \in BlakeInputs : BlakeInput(data)
  \/ BlakeResult
  \/ BlakeReset
  \/ \E key \in BlakeKeys : BlakeResetWithKey(key)
  \/ BlakeMacReset
  \/ \E key \in HmacKeys : HmacNew(key)
  \/ \E data \in HmacInputs : HmacInput(data)
  \/ HmacRawResult
  \/ HmacReset
  \/ \E key \in PbkdfKeys : PbkdfMac(key)
  \/ \E salt \in PbkdfSalts, c \in 0..MaxIter, n \in PbkdfLengths :
       Pbkdf2(salt, c, n)
  \/ \E h \in ClampHashes : Clamp(h)

HashSpec == Init /\ [][HashNext]_vars

---------------------------------------------------------------------------
(* The properties.                                                         *)

\* the little-endian S half of a signature is below the group order
SBelowOrder(sg) == BigLess(Slice(sg, 32, 64), GroupOrder)

\* C1: verify returns false for every 64-byte signature whose S half, read
\* as a little-endian integer, is greater than or equal to the group order;
\* in particular for a valid signature whose S is replaced by S + l.
C1_RejectsSNotBelowOrder ==
  (pc = "verified" /\ ~SBelowOrder(vsig)) => vres = Ret(FALSE)

\* C2: for (secret, public) = keypair(seed) and every message,
\* verify(message, public, signature(message, secret)) returns true.
C2_SignThenVerify ==
  (pc = "verified" /\ sk = secret /\ vmessage = message /\ vpublic = public
     /\ vsig = sig)
    => vres = Ret(TRUE)

C2_Witness ==
  /\ pc = "verified"
  /\ tamper.kind = "none"
  /\ sk = secret /\ vmessage = message /\ vpublic = public /\ vsig = sig
  /\ Len(message) > 0
  /\ vres = Ret(TRUE)

\* C3: keypair(seed) returns (secret, public) where secret[0..32] is the seed
\* as it was given, secret[32..64] is public, and public is the encoding of
\* a.G for a the clamped first 32 bytes of SHA-512(seed).
C3_KeypairLayout ==
  /\ pc # "idle" =>
       /\ Len(secret) = PRIVATE_KEY_LENGTH
       /\ Len(public) = PUBLIC_KEY_LENGTH
       /\ Slice(secret, 0, 32) = seed
       /\ Slice(secret, 32, 64) = public
  /\ pc = "keyed" =>
       public = Ge_to_bytes(ge_scalarmult_base(ClampScalar(Sha512(seed))))

C3_Witness ==
  /\ pc = "keyed"
  /\ Slice(secret, 0, 32) = seed
  /\ Slice(secret, 0, 32) # ClampScalar(Sha512(seed))
  /\ Slice(secret, 32, 64) = public
  /\ ~IsZero(public)

\* R || S of the signing scheme for the scalar a, the prefix and the public
\* key A:  r = H(prefix || m) mod l,  R = encode(r.G),
\* k = H(R || A || m) mod l,  S = (k * a + r) mod l
SignatureFormula(m, a, prefix, A) ==
  LET r == ScMod(Sha512(prefix \o m))
      R == Ge_to_bytes(ge_scalarmult_base(r))
      k == ScMod(Sha512(R \o A \o m))
      S == AddMod(MulMod(k, a, GroupOrder, GroupOrderBits), r,
                  GroupOrder, GroupOrderBits)
  IN  R \o S

\* C4: signature(m, sk) is R || S of the signing scheme with the scalar and
\* the prefix derived from sk[0..32] and with A = sk[32..64] as the caller
\* supplied it, whether or not it is the public key of the seed.
C4_SignatureFormula ==
  pc \in {"signed", "signed_foreign"} =>
    sig = SignatureFormula(message,
                           ClampScalar(Sha512(Slice(sk, 0, 32))),
                           Slice(Sha512(Slice(sk, 0, 32)), 32, 64),
                           Slice(sk, 32, 64))

C4_Witness ==
  /\ pc = "signed_foreign"
  /\ Slice(sk, 0, 32) = seed
  /\ Slice(sk, 32, 64) # public
  /\ Len(message) > 0
  /\ Len(sig) = SIGNATURE_LENGTH

\* C5: with the extended secret derived from the seed (the clamped scalar,
\* then the prefix), signature_extended gives the signature that signature
\* gives with keypair(seed).0, and to_public gives keypair(seed).1.
C5_ExtendedAgrees ==
  /\ pc \in {"signed_extended", "extended_public"} =>
       /\ sk = secret
       /\ ext = ExtendedSecret(seed)
       /\ esig = sig
  /\ pc = "extended_public" => epub = public

C5_Witness ==
  /\ pc = "extended_public"
  /\ ext = ExtendedSecret(seed)
  /\ Len(message) > 0
  /\ esig = sig
  /\ epub = public

\* a and b are of one length and differ in one bit of one byte
OneBitApart(a, b) ==
  /\ Len(a) = Len(b)
  /\ \E i \in 1..Len(a) :
       /\ Xor(a[i], b[i]) \in {1, 2, 4, 8, 16, 32, 64, 128}
       /\ \A j \in 1..Len(a) : j # i => a[j] = b[j]

\* C6: with sig = signature(message, secret) for the key pair of the seed,
\* verify returns false when one bit of the message, of the public key or of
\* the signature has been flipped.
C6_BitFlipRejected ==
  (/\ pc = "verified"
   /\ sk = secret
   /\ \/ OneBitApart(vmessage, message) /\ vpublic = public /\ vsig = sig
      \/ vmessage = message /\ OneBitApart(vpublic, public) /\ vsig = sig
      \/ vmessage = message /\ vpublic = public /\ OneBitApart(vsig, sig))
    => vres = Ret(FALSE)

C6_Witness ==
  /\ pc = "verified"
  /\ sk = secret /\ vmessage = message /\ vpublic = public
  /\ OneBitApart(vsig, sig)
  /\ vsig[1] # sig[1]
  /\ vres = Ret(FALSE)

\* C7: given a 32-byte public key and a 64-byte signature, verify does not
\* abort; it returns false when the public key decodes to no point and when
\* the public key is 32 zero bytes, whatever the message and the signature.
C7_VerifyReportsFalse ==
  /\ (pc = "verified" /\ Len(vpublic) = PUBLIC_KEY_LENGTH
        /\ Len(vsig) = SIGNATURE_LENGTH) =>
       /\ ~vres.panic
       /\ vres.val \in BOOLEAN
       /\ ~GeP3_from_bytes_negate_vartime(vpublic).some => vres = Ret(FALSE)
       /\ vpublic = Zeros(32) => vres = Ret(FALSE)
  /\ (pc = "called" /\ call.op \in {"verify_public", "verify_signature"}
        /\ call.len = RightLength(call.op)) =>
       ~call.res.panic

C7_Witness ==
  /\ pc = "verified"
  /\ tamper.kind = "pub_zero_forged"
  /\ vpublic = Zeros(32)
  /\ ~check_s_lt_l(Slice(vsig, 32, 64))
  /\ vres = Ret(FALSE)

\* C8: every public operation panics when the seed, key or signature
\* argument it is given has not the documented length.
C8_WrongLengthPanics ==
  (pc = "called" /\ call.len # RightLength(call.op)) => call.res.panic

\* C9: for the key pairs of two seeds, exchange(public_B, secret_A) equals
\* exchange(public_A, secret_B).
C9_ExchangeAgreement ==
  pc = "agreed" => shared_ab = shared_ba

C9_Witness ==
  /\ pc = "agreed"
  /\ peer_seed # seed
  /\ peer_public # public
  /\ ~IsZero(shared_ab)
  /\ shared_ab = shared_ba

\* C10: for (priv, pub) = keypair(seed) and x the clamped first 32 bytes of
\* SHA-512(priv[0..32]), the Montgomery coordinate (1 + y) / (1 - y) of the
\* y that pub encodes is curve25519_base(x), and exchange(pub, priv) is
\* curve25519(x, curve25519_base(x)).
C10_ExchangeIsX25519 ==
  (pc = "half_agreed" /\ peer_seed = seed) =>
    /\ peer_public = public
    /\ Fe_to_bytes(edwards_to_montgomery_x(Fe_from_bytes(public)))
         = curve25519_base(ClampScalar(Sha512(Slice(secret, 0, 32))))
    /\ shared_ab
         = curve25519(ClampScalar(Sha512(Slice(secret, 0, 32))),
                      curve25519_base(
                        ClampScalar(Sha512(Slice(secret, 0, 32)))))

C10_Witness ==
  /\ pc = "half_agreed"
  /\ peer_seed = seed
  /\ peer_public = public
  /\ ~IsZero(shared_ab)
  /\ shared_ab = exchange(public, secret).val

ContextAfter(c0, chunks, done) ==
  IF done THEN Blake2b_finalize(FeedAll(c0, chunks), OutLen).val.ctx
  ELSE FeedAll(c0, chunks)

\* the result a freshly created context c0 gives for the chunks
ResultAfter(c0, chunks) ==
  Blake2b_finalize(FeedAll(c0, chunks), OutLen).val.out

\* C12: after Mac::reset of a context created by new_keyed(key) with a
\* non-empty key, feeding x and reading the result gives what a fresh
\* new_keyed(key) fed x gives
C12_MacResetKeepsKey ==
  (unit = "blake2b" /\ chow = "mac_reset" /\ Len(ckey) > 0 /\ cdone)
    => cout = ResultAfter(Blake2b_new_keyed(ckey).val, cfed)

\* C13: whatever the context held before, reset_with_key(key) leaves it as
\* new_keyed(key) creates it and reset() as new() creates it: the context
\* is the same after the same inputs, and so is the result read from it
C13_ResetAsCreated ==
  /\ (unit = "blake2b" /\ chow = "reset_with_key")
       => /\ ctx = ContextAfter(Blake2b_new_keyed(ckey).val, cfed, cdone)
          /\ cdone => cout = ResultAfter(Blake2b_new_keyed(ckey).val, cfed)
  /\ (unit = "blake2b" /\ chow = "reset")
       => /\ ctx = ContextAfter(Blake2b_new.val, cfed, cdone)
          /\ cdone => cout = ResultAfter(Blake2b_new.val, cfed)

\* a context that had been fed and read, reset with a non-empty key, fed
\* and read again
C13_Witness ==
  /\ unit = "blake2b" /\ chow = "reset_with_key"
  /\ cprev.fed /\ cprev.done
  /\ Len(ckey) > 0 /\ Len(cfed) > 0 /\ cdone
  /\ Len(cout) = OutLen

\* H(x): the digest of x fed to a fresh Blake2b in one piece
HashOf(x) == ResultAfter(Blake2b_new.val, <<x>>)

\* every byte of k xor mask
XorMask(k, mask) == SubSeq([i \in 1..Len(k) |-> Xor(k[i], mask)], 1, Len(k))

\* K': K padded with zeros to a block, or H(K) padded when K is longer
PaddedKey(K) ==
  IF Len(K) <= BLOCK_BYTES THEN K \o Zeros(BLOCK_BYTES - Len(K))
  ELSE HashOf(K) \o Zeros(BLOCK_BYTES - Len(HashOf(K)))

\* H((K' xor 0x5c..) || H((K' xor 0x36..) || m))
HmacFormula(K, m) ==
  HashOf(XorMask(PaddedKey(K), 92) \o HashOf(XorMask(PaddedKey(K), 54) \o m))

\* C14: raw_result of an Hmac made by Hmac::new over a fresh digest with
\* key K, after the message m was fed in any number of input calls, is
\* H((K' xor 0x5c..) || H((K' xor 0x36..) || m)), K' being K padded with
\* zeros to a block when K fits, and H(K) padded with zeros when it does not
C14_HmacFormula ==
  (unit = "hmac" /\ hhow = "new" /\ hlast = "raw_result")
    => hcode = HmacFormula(hkey, Concat(hfed))

\* a key longer than a block, a message fed in more than one call, read
C14_Witness ==
  /\ unit = "hmac" /\ hhow = "new" /\ hlast = "raw_result"
  /\ Len(hkey) > BLOCK_BYTES
  /\ Len(hfed) > 1
  /\ Len(hcode) = OUTPUT_BYTES

\* the code a freshly constructed Hmac with key k gives for the chunks
FreshCode(k, chunks) ==
  Hmac_raw_result(InputAll(Hmac_new(Blake2b_new.val, k), chunks),
                  Hmac_output_bytes).val.out

\* C17: the finished flag is false after new and after reset and true
\* exactly when raw_result was called since; input aborts exactly when the
\* Hmac is finished; raw_result called again while finished writes the
\* same code; and after reset the code for the inputs fed since is the
\* code a freshly constructed Hmac with the same key gives for them
C17_HmacLifecycle ==
  unit \in {"hmac", "aborted"} =>
    /\ hmac.finished <=> hdone
    /\ hlast \in {"new", "reset"} => ~hmac.finished
    /\ hlast = "input" => (hpanic <=> hwas)
    /\ (hlast = "raw_result" /\ hwas) => hcode = hprev
    /\ (hhow = "reset" /\ hlast = "raw_result")
         => hcode = FreshCode(hkey, hfed)

\* an Hmac that was reset, fed, read, and read again
C17_Witness ==
  /\ unit = "hmac" /\ hhow = "reset" /\ hlast = "raw_result" /\ hwas
  /\ Len(hkey) > 0 /\ Len(hfed) > 0
  /\ Len(hcode) = OUTPUT_BYTES /\ hcode = hprev

\* PRF(x) under the password: the HMAC of x by the formula of C14
PRF(password, x) == HmacFormula(password, x)

\* a xor b, byte by byte, of two codes of the same length
XorBytes(a, b) == SubSeq([i \in 1..Len(a) |-> Xor(a[i], b[i])], 1, Len(a))

\* U_j xor ... xor U_c, u being U_j
RECURSIVE UXor(_, _, _, _)
UXor(password, u, j, c) ==
  IF j >= c THEN u ELSE XorBytes(u, UXor(password, PRF(password, u), j + 1, c))

\* the index of a block as 4 big-endian bytes
BigEndian32(i) ==
  <<(i \div 16777216) % 256, (i \div 65536) % 256, (i \div 256) % 256,
    i % 256>>

\* T_i
BlockT(password, salt, c, i) ==
  UXor(password, PRF(password, salt \o BigEndian32(i)), 1, c)

\* T_i || ... || T_last
RECURSIVE BlocksT(_, _, _, _, _)
BlocksT(password, salt, c, i, last) ==
  IF i > last THEN <<>>
  ELSE BlockT(password, salt, c, i) \o BlocksT(password, salt, c, i + 1, last)

\* how many blocks n bytes of output take
BlocksFor(n) == (n + OUTPUT_BYTES - 1) \div OUTPUT_BYTES

\* C15: pbkdf2 with c = 0 aborts; with c >= 1 and a mac that holds no
\* input it fills output with the first len(output) bytes of T_1 || T_2 ||
\* ..., T_i being U_1 xor ... xor U_c with U_1 = PRF(salt || i as 4
\* big-endian bytes), i counting from 1, and U_j = PRF(U_(j-1)); a last
\* chunk shorter than the code takes the head of its block; and every block
\* takes c calls of the PRF
C15_Pbkdf2Blocks ==
  unit = "derived" =>
    /\ kres.panic <=> kc = 0
    /\ kc >= 1 =>
         /\ Len(kres.val.out) = klen
         /\ kres.val.out =
              Slice(BlocksT(hkey, ksalt, kc, 1, BlocksFor(klen)), 0, klen)
         /\ kres.val.evals = kc * BlocksFor(klen)

\* three rounds, an output of two whole blocks and a part of the third
C15_Witness ==
  /\ unit = "derived" /\ ~kres.panic
  /\ kc >= 3 /\ Len(ksalt) > 0
  /\ klen > 2 * OUTPUT_BYTES /\ klen < 3 * OUTPUT_BYTES
  /\ Len(kres.val.out) = klen
  /\ kres.val.evals = 3 * kc

\* C16 as it stands: there is a 64-byte hash output whose scalar clamped
\* by exchange (byte 31 &= 127, |= 64) is not the scalar clamped by keypair
\* (byte 31 &= 63, |= 64); looked up where the clamps have been applied,
\* among the hash outputs that take every value of byte 31
C16_ClampsDiffer ==
  unit = "clamped" =>
    \E h \in ClampHashes :
      Slice(ExchangeClamp(h), 0, 32) # Slice(KeypairClamp(h), 0, 32)

\* C16, amended: the two clamps are written differently and give the same
\* scalar for every hash output: bits 0-2 of byte 0 cleared, bit 7 of byte
\* 31 cleared, bit 6 of byte 31 set, every other bit as hashed
C16_ClampsAgree ==
  unit = "clamped" =>
    /\ xclamp = kclamp
    /\ xclamp = [Slice(cin, 0, 32) EXCEPT ![1]  = (@ \div 8) * 8,
                                          ![32] = (@ % 64) + 64]

\* a hash output with bit 6 of byte 31 clear and bit 7 set, clamped by both
C16_Witness ==
  /\ unit = "clamped"
  /\ cin[32] >= 128 /\ cin[32] < 192
  /\ xclamp[32] = cin[32] - 64
  /\ kclamp[32] = cin[32] - 64

=============================================================================
